---- MODULE Spec2Model ----
(***************************************************************************)
(* KioskBrowser: the settings store (KioskBrowserSettings), the settings   *)
(* panel (SettingsPage: URL table, preference widgets, save) and the part  *)
(* of the main window that reloads the settings when the panel saves and    *)
(* rebuilds its tabs and page views from them (MainWindow._setup_pages,     *)
(* with the favicon workers of src/main.py), sets its title and its         *)
(* fullscreen state from them and starts the status-bar timer.              *)
(*                                                                         *)
(* The repository holds three revisions of the settings code:              *)
(*   "monolith"  src/main.py                      (6 keys, 3-column table) *)
(*   "split"     src/settings.py                  (8 keys, 3-column table) *)
(*   "package"   src/src/kioskbrowser/settings.py (13 keys, 2-column table)*)
(* `schema` says which revision runs.  Rows and indices are 0-based as in  *)
(* the source; a TLA+ sequence holds row r at position r + 1.              *)
(***************************************************************************)
EXTENDS Integers, Sequences, FiniteSets, TLC

VARIABLES
    schema,                 \* which revision of the code runs
    platform,               \* platform.system()
    store,                  \* QSettings("meowmeowahr", "KioskBrowser"): key -> value
    pane_settings,          \* SettingsPage.settings
    url_table,              \* SettingsPage.url_table: sequence of rows, a row = its cell texts
    current_row,            \* url_table.currentRow(), -1 when there is no current cell
    selected_rows,          \* { item.row() : item in url_table.selectedItems() }
    window_branding_input,  \* text of the QLineEdit
    topbar_update,          \* value of the QSpinBox
    checkboxes,             \* key -> isChecked() of the check box / checkable group of that key
    win_settings,           \* MainWindow.settings
    root_index,             \* MainWindow.root_stack.currentIndex(): 0 main view, 1 settings
    pages_layout,           \* MainWindow.pages_layout: the tab buttons, in order
    web_stack,              \* MainWindow.web_stack: the page views, in order
    web_index,              \* web_stack.currentIndex()
    fetches,                \* the favicon fetches started and not yet finished
    window_title,           \* MainWindow.windowTitle()
    is_fullscreen,          \* MainWindow.isFullScreen()
    clock_interval,         \* MainWindow.clock_timer.interval()
    warnings,               \* the warnings shown to the user so far
    store_writable,         \* whether the backing store takes writes
    crashed,                \* an exception left MainWindow.__init__: no window, no event loop
    loaded_urls,            \* history: settings["urls"] as SettingsPage.__init__ loaded it
    last_op,                \* history: the handler that ran last
    pre,                    \* history: what that handler found (see Snap)
    scenario,               \* history: progress through "add A, add B, move row 0 down"
    edits                   \* history: number of preference edits made so far

vars == << schema, platform, store, pane_settings, url_table, current_row,
           selected_rows, window_branding_input, topbar_update, checkboxes,
           win_settings, root_index, pages_layout, web_stack, web_index, fetches,
           window_title, is_fullscreen, clock_interval, warnings, store_writable, crashed, loaded_urls, last_op, pre, scenario,
           edits >>

----------------------------------------------------------------------------
(* Bounds of the model *)

MaxRows == 2
MaxEdits == 2

----------------------------------------------------------------------------
(* KioskBrowserSettings *)

Schemas == {"monolith", "split", "package"}
Platforms == {"Linux", "Windows"}

DefaultsMonolith ==
    [ urls |-> << >>, windowBranding |-> "Kiosk Browser", fullscreen |-> TRUE,
      topbar |-> TRUE, topbar_12hr |-> TRUE, topbar_update_speed |-> 1000 ]

DefaultsSplit ==
    [ urls |-> << >>, windowBranding |-> "Kiosk Browser", fullscreen |-> TRUE,
      topbar |-> TRUE, topbar_12hr |-> TRUE, topbar_battery |-> FALSE,
      topbar_cpu |-> FALSE, topbar_update_speed |-> 1000 ]

DefaultsPackage ==
    [ urls |-> << >>, windowBranding |-> "Kiosk Browser", fullscreen |-> TRUE,
      topbar |-> TRUE, topbar_12hr |-> TRUE, topbar_battery |-> FALSE,
      topbar_cpu |-> FALSE, topbar_mem |-> FALSE, topbar_update_speed |-> 1000,
      lockdown |-> FALSE, lockdown_always_on_top |-> FALSE,
      lockdown_windows_hide_taskbar |-> FALSE,
      linux_wayland_experimental |-> FALSE ]

DEFAULT_SETTINGS(sch) ==
    CASE sch = "monolith" -> DefaultsMonolith
      [] sch = "split"    -> DefaultsSplit
      [] sch = "package"  -> DefaultsPackage

\* Fault: a missing "fullscreen" reads as False instead of its default.
value_no_default(st, key, default) ==
    IF key \in DOMAIN st THEN st[key]
    ELSE IF key = "fullscreen" THEN FALSE ELSE default

\* QSettings.value(key, default, type=type(default)).  Every value this model
\* puts in a store has the type of its key's default, on which the conversion
\* to type(default) changes nothing.
value(st, key, default) ==
    IF key \in DOMAIN st THEN st[key] ELSE default

\* Fault: a check-box key the store does not hold is left out.
load_settings_skip_missing(st, sch) ==
    [ key \in { k \in DOMAIN DEFAULT_SETTINGS(sch) :
                   k \in DOMAIN st
                   \/ k \in {"urls", "windowBranding", "topbar_update_speed"} } |->
        value(st, key, DEFAULT_SETTINGS(sch)[key]) ]

\* Fault: every key the store holds is loaded, known or not.
load_settings_every_key(st, sch) ==
    [ key \in (DOMAIN DEFAULT_SETTINGS(sch)) \cup (DOMAIN st) |->
        IF key \in DOMAIN DEFAULT_SETTINGS(sch)
        THEN value(st, key, DEFAULT_SETTINGS(sch)[key])
        ELSE st[key] ]

load_settings(st, sch) ==
    [ key \in DOMAIN DEFAULT_SETTINGS(sch) |->
        value(st, key, DEFAULT_SETTINGS(sch)[key]) ]

\* Fault: only the keys the store already holds are written.
save_settings_existing_only(st, settings) ==
    [ key \in DOMAIN st |->
        IF key \in DOMAIN settings THEN settings[key] ELSE st[key] ]

\* for key, value in settings.items(): qsettings.setValue(key, value)
save_settings(st, settings) ==
    [ key \in (DOMAIN st) \cup (DOMAIN settings) |->
        IF key \in DOMAIN settings THEN settings[key] ELSE st[key] ]

----------------------------------------------------------------------------
(* SettingsPage: construction *)

PageIcon == "@pageicon"

\* QSpinBox.setRange(500, 10000)
SpinMin == 500
SpinMax == 10000

\* Fault: no range on the spin box.
spin_setValue_unbounded(v) == v

\* QSpinBox keeps its value inside its range, for setValue() and for typed input
spin_setValue(v) ==
    IF v < SpinMin THEN SpinMin ELSE IF v > SpinMax THEN SpinMax ELSE v

\* dict.get(key, default)
dict_get(d, key, default) ==
    IF key \in DOMAIN d THEN d[key] ELSE default

\* the default each widget's settings.get(key, default) names: for every key
\* it is the key's value in DEFAULT_SETTINGS
widget_default(key) == DefaultsPackage[key]

\* one row of _populate_url_table: "for url, label, icon in ..." (3 columns),
\* "for url, label, *_ in ..." (2 columns)
populate_row(rec, sch) ==
    IF sch = "package" THEN << rec[1], rec[2] >> ELSE << rec[1], rec[2], rec[3] >>

\* Fault: the rows are inserted at the top, so the table is in reverse order.
populate_url_table_reversed(urls, sch) ==
    [ i \in 1..Len(urls) |-> populate_row(urls[Len(urls) + 1 - i], sch) ]

populate_url_table(urls, sch) ==
    [ i \in 1..Len(urls) |-> populate_row(urls[i], sch) ]

\* the keys that have a check box (or a checkable group box) in the panel
CheckKeys(sch, plat) ==
    CASE sch = "monolith" -> {"fullscreen", "topbar", "topbar_12hr"}
      [] sch = "split"    -> {"fullscreen", "topbar", "topbar_12hr",
                              "topbar_battery", "topbar_cpu"}
      [] sch = "package"  ->
            {"fullscreen", "topbar", "topbar_12hr", "topbar_battery",
             "topbar_cpu", "topbar_mem", "lockdown", "lockdown_always_on_top",
             "linux_wayland_experimental"}
            \cup (IF plat = "Windows" THEN {"lockdown_windows_hide_taskbar"} ELSE {})

----------------------------------------------------------------------------
(* Unpacking the urls records.  A "for" target of three names takes records *)
(* of exactly three elements and raises ValueError on any other; the target *)
(* "url, label, *_" takes records of two elements or more.                  *)

\* _populate_url_table: "for url, label, icon in" / "for url, label, *_ in"
unpacks_in_table(rec, sch) ==
    IF sch = "package" THEN Len(rec) >= 2 ELSE Len(rec) = 3

\* _setup_pages: "for index, (url, label, icon_path) in enumerate(...)"
unpacks_in_setup_pages(rec) == Len(rec) = 3

\* the records _populate_url_table turns into rows before it raises, if it does
RECURSIVE rows_before_error(_, _)
rows_before_error(urls, sch) ==
    IF urls = << >> \/ ~ unpacks_in_table(Head(urls), sch) THEN << >>
    ELSE << Head(urls) >> \o rows_before_error(Tail(urls), sch)

\* SettingsPage.__init__ raises out of _populate_url_table
table_raises(urls, sch) == \E i \in 1..Len(urls) : ~ unpacks_in_table(urls[i], sch)

\* _setup_pages raises
setup_pages_raises(urls) == \E i \in 1..Len(urls) : ~ unpacks_in_setup_pages(urls[i])

----------------------------------------------------------------------------
(* MainWindow: the tabs and the page views.  src/main.py is the window of   *)
(* the "monolith" and, standing beside src/settings.py, of the "split"      *)
(* revision; src/src/kioskbrowser/main.py is the window of "package".       *)

DefaultIcon == "mdi6.web"
NoIcon == ""

\* the files os.path.exists() finds
LocalFiles == {"/icon.png"}
os_path_exists(path) == path \in LocalFiles

\* src/main.py has the favicon workers; the newest window takes the icon from
\* the loaded page (iconChanged) and reads no icon_path
has_icon_workers(sch) == sch # "package"

\* the tab of the "no pages" state, and its view
WelcomeButton == [ text |-> "KioskBrowser", icon |-> NoIcon ]
WelcomeView == [ kind |-> "welcome", url |-> "" ]

\* the icon a new tab button shows: _set_button_icon
button_icon(icon_path, sch) ==
    IF has_icon_workers(sch) /\ icon_path # PageIcon /\ os_path_exists(icon_path)
    THEN icon_path
    ELSE DefaultIcon

\* _setup_pages: the buttons it puts into pages_layout
setup_buttons(urls, sch) ==
    IF Len(urls) = 0 THEN << WelcomeButton >>
    ELSE [ i \in 1..Len(urls) |->
             [ text |-> urls[i][2], icon |-> button_icon(urls[i][3], sch) ] ]

\* Fault: the welcome view is always the first view of the stack.
setup_views_welcome_first(urls) ==
    << WelcomeView >> \o [ i \in 1..Len(urls) |-> [ kind |-> "web", url |-> urls[i][1] ] ]

\* _setup_pages: the views it puts into web_stack
setup_views(urls) ==
    IF Len(urls) = 0 THEN << WelcomeView >>
    ELSE [ i \in 1..Len(urls) |-> [ kind |-> "web", url |-> urls[i][1] ] ]

\* Fault: the current page of before the rebuild stays the current page.
setup_current_index_kept(index) == index

\* _setup_pages: "if self.web_stack.count() > 0: self._switch_page(0)", on a
\* stack that holds the welcome view or a view for every entry
setup_current_index(index) == 0

\* Fault: the view of an entry is in the stack before its icon is set.
stack_count_at_view_first(urls, i) == i + 1

\* web_stack.count() when _setup_pages calls _set_button_icon for entry i
\* (0-based): the stack was emptied, no welcome view went in (the list is not
\* empty) and the entries before i have their views
stack_count_at(urls, i) == Len(SubSeq(setup_views(urls), 1, i))

\* self.settings["urls"][count][0]; a count past the list raises IndexError
IndexError == "IndexError"
fetch_url(urls, count) ==
    IF count < Len(urls) THEN urls[count + 1][1] ELSE IndexError

\* Fault: a fetch is started for every entry, whatever its icon.
wants_fetch_always(icon_path) == TRUE

\* _set_button_icon: 'if icon_path == "@pageicon"'
wants_fetch(icon_path) == icon_path = PageIcon

\* _setup_pages: the favicon fetches it starts; each holds the button of its
\* tab.  src/main.py starts an IconFetchWorker, on the url _set_button_icon
\* reads, for every entry whose icon is "@pageicon".  The newest window reads
\* no icon_path: it connects iconChanged of every entry's page, which brings
\* the favicon of the url the page loads.
started_fetches(urls, sch) ==
    IF has_icon_workers(sch)
    THEN { [ button |-> i - 1, url |-> fetch_url(urls, stack_count_at(urls, i - 1)),
             disposed |-> FALSE ] :
             i \in { j \in 1..Len(urls) : wants_fetch(urls[j][3]) } }
    ELSE { [ button |-> i - 1, url |-> urls[i][1], disposed |-> FALSE ] :
             i \in 1..Len(urls) }

\* _setup_pages: the buttons it found in pages_layout are taken out of the
\* layout and given to deleteLater(); the workers started for them go on.
\* A button that is out of the layout has no index: the workers that hold
\* such buttons are kept as one.
NoButton == -1
DisposedWorker == [ button |-> NoButton, url |-> "", disposed |-> TRUE ]
disposed_fetches(fs) == IF fs = {} THEN {} ELSE {DisposedWorker}

\* setWindowTitle(self.settings["windowBranding"]): the title is the string
\* it is given
PageTitle == "@pagetitle"
setWindowTitle(branding) == branding

\* set_fullscreen(fs): isFullScreen() once it returns
set_fullscreen(fs) == fs

\* only the newest window overrides changeEvent
has_changeEvent(sch) == sch = "package"

\* Fault: the handler forces fullscreen whatever the loaded setting says.
changeEvent_result_always(settings, sch, found) ==
    IF has_changeEvent(sch) THEN TRUE ELSE found

\* isFullScreen() once a change event that found the window in state `found`
\* has been handled: changeEvent of the newest window, QWidget's own (which
\* leaves the state alone) in src/main.py
changeEvent_result(settings, sch, found) ==
    IF has_changeEvent(sch) /\ dict_get(settings, "fullscreen", TRUE) /\ ~ found
    THEN TRUE
    ELSE found

\* no clock_timer: __init__ did not come to it
NoTimer == -1

\* clock_timer.setInterval(self.settings.get("topbar_update_speed", 1000))
timer_interval(settings) == dict_get(settings, "topbar_update_speed", 1000)

----------------------------------------------------------------------------
(* The stores a process can start on, and what the user can enter *)

EntryA == << "https://a.test", "A", "@pageicon" >>
EntryB == << "https://b.test", "B", "@pageicon" >>
EntryL == << "https://a.test", "Alt", "/icon.png" >>   \* A's url again, local icon
EntryNone == << "", "", "@pageicon" >>                  \* OK pressed on the untouched dialog

Entries == {EntryA, EntryB, EntryL}

EmptyStore == [ key \in {} |-> TRUE ]

\* hand-edited: below the spin box's range
StoreSlow == [ topbar_update_speed |-> 250 ]

\* as saved by the "monolith" revision
StoreMonolith ==
    [ urls |-> << EntryL, EntryB >>, windowBranding |-> "@pagetitle",
      fullscreen |-> FALSE, topbar |-> TRUE, topbar_12hr |-> FALSE,
      topbar_update_speed |-> 500 ]

\* as saved by the "package" revision
StorePackage ==
    [ urls |-> << EntryA >>, windowBranding |-> "Kiosk Browser", fullscreen |-> TRUE,
      topbar |-> FALSE, topbar_12hr |-> TRUE, topbar_battery |-> TRUE,
      topbar_cpu |-> FALSE, topbar_mem |-> FALSE, topbar_update_speed |-> 10000,
      lockdown |-> TRUE, lockdown_always_on_top |-> FALSE,
      lockdown_windows_hide_taskbar |-> TRUE,
      linux_wayland_experimental |-> FALSE ]

\* urls records without the icon element
StoreTwoElement == [ urls |-> << << "https://a.test", "A" >> >> ]

\* a store holding a key no revision knows
StoreLegacy ==
    [ urls |-> << EntryL >>, fullscreen |-> FALSE, homepage |-> "https://old.test" ]

InitStores ==
    {EmptyStore, StoreSlow, StoreMonolith, StorePackage, StoreTwoElement, StoreLegacy}

\* the stores that differ in their page list
PageStores == {EmptyStore, StoreMonolith}

\* URLConfigDialog.get_data(): (url, label, icon) with 3 columns, (url, label)
\* with 2.  The dialog accepts whatever its line edits hold, empty or not.
DialogEntries == {EntryA, EntryB, EntryNone}
DialogData(sch) == { populate_row(e, sch) : e \in DialogEntries }

BrandingInputs == {"Kiosk Browser", "@pagetitle"}
SpinInputs == {250, 1000, 20000}

----------------------------------------------------------------------------
(* History *)

NoArg == << >>

Snap(arg) ==
    [ table |-> url_table, row |-> current_row, sel |-> selected_rows, arg |-> arg ]

NoSnap ==
    [ table |-> << >>, row |-> -1, sel |-> {}, arg |-> NoArg ]

----------------------------------------------------------------------------
(* Process start: MainWindow.__init__ and, inside it, SettingsPage.__init__  *)
(* and then _setup_pages.  Only the "package" revision reads                *)
(* platform.system().  A ValueError out of either leaves __init__ and ends  *)
(* the process before a window is shown.                                    *)

Init ==
    /\ schema \in Schemas
    /\ platform \in (IF schema = "package" THEN Platforms ELSE {"Linux"})
    /\ store \in InitStores
    /\ store_writable \in BOOLEAN
    /\ pane_settings = load_settings(store, schema)
    /\ url_table = populate_url_table(rows_before_error(pane_settings.urls, schema), schema)
    /\ current_row = -1
    /\ selected_rows = {}
    /\ window_branding_input =
          dict_get(pane_settings, "windowBranding", widget_default("windowBranding"))
    /\ topbar_update =
          spin_setValue(dict_get(pane_settings, "topbar_update_speed",
                                 widget_default("topbar_update_speed")))
    /\ checkboxes =
          [ k \in CheckKeys(schema, platform) |->
              dict_get(pane_settings, k, widget_default(k)) ]
    /\ win_settings = load_settings(store, schema)
    /\ root_index = 0
    /\ crashed = (table_raises(win_settings.urls, schema)
                     \/ setup_pages_raises(win_settings.urls))
    /\ pages_layout = IF crashed THEN << >> ELSE setup_buttons(win_settings.urls, schema)
    /\ web_stack = IF crashed THEN << >> ELSE setup_views(win_settings.urls)
    /\ web_index = IF crashed THEN -1 ELSE 0
    /\ fetches = IF crashed THEN {} ELSE started_fetches(win_settings.urls, schema)
    /\ window_title = setWindowTitle(win_settings["windowBranding"])
    /\ is_fullscreen = set_fullscreen(dict_get(win_settings, "fullscreen", TRUE))
    /\ clock_interval = IF crashed THEN NoTimer ELSE timer_interval(win_settings)
    /\ warnings = << >>
    /\ loaded_urls = pane_settings.urls
    /\ last_op = "init"
    /\ pre = NoSnap
    /\ scenario = 0
    /\ edits = 0

----------------------------------------------------------------------------
(* The URL table: QTableWidget operations *)

\* setSelectionBehavior(SelectItems), setSelectionMode(SingleSelection)
selectionBehavior == "SelectItems"
selectionMode == "SingleSelection"

\* QTableView.selectRow(row) selects a row only "if the current SelectionMode
\* and SelectionBehavior allows rows to be selected": it returns at once under
\* SelectColumns, and under SingleSelection with SelectItems.
RowsSelectable ==
    ~ (\/ selectionBehavior = "SelectColumns"
       \/ (selectionMode = "SingleSelection" /\ selectionBehavior = "SelectItems"))

\* currentRow() after selectRow(row) on a table of n rows
selectRow(cur, row, n) ==
    IF RowsSelectable /\ row >= 0 /\ row < n THEN row ELSE cur

\* selected rows after selectRow(row) on a table of n rows
selectRow_selection(sel, row, n) ==
    IF RowsSelectable /\ row >= 0 /\ row < n THEN {row} ELSE sel

\* Fault: a url the table already holds is not added again.
insertRow_unique(t, cells) ==
    IF \E i \in 1..Len(t) : t[i][1] = cells[1] THEN t ELSE Append(t, cells)

\* insertRow(rowCount()) and setItem for each column
insertRow(t, cells) == Append(t, cells)

\* removeRow(row): a row that is not in the table is not removed
removeRow(t, row) ==
    IF row >= 0 /\ row < Len(t)
    THEN SubSeq(t, 1, row) \o SubSeq(t, row + 2, Len(t))
    ELSE t

SetMax(S) == CHOOSE x \in S : \A y \in S : y <= x

SetMin(S) == CHOOSE x \in S : \A y \in S : x <= y

\* Fault: the rows are removed in ascending order, so every removal shifts
\* the rows still to be removed.
RECURSIVE remove_rows_ascending(_, _)
remove_rows_ascending(t, rows) ==
    IF rows = {} THEN t
    ELSE remove_rows_ascending(removeRow(t, SetMin(rows)), rows \ {SetMin(rows)})

\* for row in sorted(selected_rows, reverse=True): removeRow(row)
RECURSIVE remove_rows(_, _)
remove_rows(t, rows) ==
    IF rows = {} THEN t
    ELSE remove_rows(removeRow(t, SetMax(rows)), rows \ {SetMax(rows)})

\* The current row once row `row` of a table of n rows is removed.  The view
\* keeps a current cell in single-selection mode: the row after the removed
\* one takes over (and moves up into its place), else the row before it.
current_after_removeRow(cur, row, n) ==
    IF row < 0 \/ row >= n THEN cur
    ELSE IF cur = row THEN (IF n = 1 THEN -1 ELSE IF row + 1 < n THEN row ELSE row - 1)
    ELSE IF cur > row THEN cur - 1
    ELSE cur

RECURSIVE current_after_remove(_, _, _)
current_after_remove(cur, rows, n) ==
    IF rows = {} THEN cur
    ELSE current_after_remove(current_after_removeRow(cur, SetMax(rows), n),
                              rows \ {SetMax(rows)},
                              IF SetMax(rows) < n THEN n - 1 ELSE n)

\* takeItem(row, col) for every column: the cells of the row, none for a row
\* that is not in the table
NoItems == << >>

takeItems(t, row) ==
    IF row >= 0 /\ row < Len(t) THEN t[row + 1] ELSE NoItems

\* Fault: the last column is left out of the swap.
swap_rows_but_last_column(t, row1, row2) ==
    [ i \in 1..Len(t) |->
        IF i = row1 + 1
        THEN SubSeq(takeItems(t, row2), 1, Len(t[i]) - 1) \o << t[i][Len(t[i])] >>
        ELSE IF i = row2 + 1
        THEN SubSeq(takeItems(t, row1), 1, Len(t[i]) - 1) \o << t[i][Len(t[i])] >>
        ELSE t[i] ]

\* _swap_rows: takeItem / setItem of both rows, column by column
swap_rows(t, row1, row2) ==
    [ i \in 1..Len(t) |->
        IF i = row1 + 1 THEN takeItems(t, row2)
        ELSE IF i = row2 + 1 THEN takeItems(t, row1)
        ELSE t[i] ]

\* Fault: row 0 counts as movable.
can_move_up_from_top(cur) == cur >= 0

\* _move_up: "if current_row > 0"
can_move_up(cur) == cur > 0

\* _move_down: "if current_row < self.url_table.rowCount() - 1"
can_move_down(cur, n) == cur < n - 1

----------------------------------------------------------------------------
(* SettingsPage: the handlers.  The panel is on page 1 of root_stack; its    *)
(* widgets take input only while that page is shown.                        *)

RowA(sch) == populate_row(EntryA, sch)
RowB(sch) == populate_row(EntryB, sch)

PrefsUnchanged == UNCHANGED << window_branding_input, topbar_update, checkboxes, edits >>
TableUnchanged == UNCHANGED << url_table, current_row, selected_rows >>
\* Fault: every handler writes the panel's settings through to the store.
SavedUnchanged_write_through ==
    /\ store' = save_settings(store, pane_settings)
    /\ UNCHANGED << pane_settings, win_settings >>

\* the handlers that call neither save_settings nor load_settings
SavedUnchanged == UNCHANGED << store, pane_settings, win_settings >>
WindowUnchanged == UNCHANGED << window_title, is_fullscreen >>
DisplayUnchanged ==
    /\ UNCHANGED << pages_layout, web_stack, web_index, fetches >>
    /\ WindowUnchanged

\* Fault: every handler sets the timer to the loaded update speed again.
TimerUnchanged_restarted == clock_interval' = timer_interval(win_settings')

\* no handler touches clock_timer: setInterval is called in __init__ only
TimerUnchanged == UNCHANGED clock_interval

ProcessUnchanged ==
    /\ UNCHANGED << schema, platform, loaded_urls, warnings, store_writable, crashed >>
    /\ TimerUnchanged

\* the user clicks a cell of row r: it becomes the current and the selected cell
ClickCell ==
    /\ ~ crashed
    /\ root_index = 1
    /\ \E r \in 0..(Len(url_table) - 1) :
        /\ current_row' = r
        /\ selected_rows' = {r}
    /\ last_op' = "click"
    /\ pre' = NoSnap
    /\ UNCHANGED << url_table, root_index, scenario >>
    /\ PrefsUnchanged /\ SavedUnchanged /\ DisplayUnchanged /\ ProcessUnchanged

\* Ctrl+click on the selected cell: single-selection mode deselects it, the
\* cell stays current
Deselect ==
    /\ ~ crashed
    /\ root_index = 1
    /\ selected_rows # {}
    /\ selected_rows' = {}
    /\ last_op' = "deselect"
    /\ pre' = NoSnap
    /\ UNCHANGED << url_table, current_row, root_index, scenario >>
    /\ PrefsUnchanged /\ SavedUnchanged /\ DisplayUnchanged /\ ProcessUnchanged

\* _add_url: the dialog is accepted with `data`, or cancelled
_add_url ==
    /\ ~ crashed
    /\ root_index = 1
    /\ \E accepted \in BOOLEAN : \E data \in DialogData(schema) :
        IF accepted
        THEN /\ Len(url_table) < MaxRows
             /\ url_table' = insertRow(url_table, data)
             /\ pre' = Snap(data)
             /\ scenario' = IF url_table = << >> /\ data = RowA(schema) THEN 1
                            ELSE IF scenario = 1 /\ data = RowB(schema) THEN 2
                            ELSE 0
        ELSE /\ url_table' = url_table
             /\ pre' = Snap(NoArg)
             /\ scenario' = scenario
    /\ last_op' = "add_url"
    /\ UNCHANGED << current_row, selected_rows, root_index >>
    /\ PrefsUnchanged /\ SavedUnchanged /\ DisplayUnchanged /\ ProcessUnchanged

\* _remove_selected_urls
_remove_selected_urls ==
    /\ ~ crashed
    /\ root_index = 1
    /\ url_table' = remove_rows(url_table, selected_rows)
    /\ current_row' = current_after_remove(current_row, selected_rows, Len(url_table))
    /\ selected_rows' = IF selected_rows = {} \/ current_row' = -1 THEN {}
                        ELSE {current_row'}
    /\ last_op' = "remove"
    /\ pre' = Snap(NoArg)
    /\ scenario' = 0
    /\ UNCHANGED << root_index >>
    /\ PrefsUnchanged /\ SavedUnchanged /\ DisplayUnchanged /\ ProcessUnchanged

\* _move_up
_move_up ==
    /\ ~ crashed
    /\ root_index = 1
    /\ IF current_row = -1
       THEN TableUnchanged
       ELSE IF can_move_up(current_row)
       THEN /\ url_table' = swap_rows(url_table, current_row, current_row - 1)
            /\ current_row' = selectRow(current_row, current_row - 1, Len(url_table))
            /\ selected_rows' =
                 selectRow_selection(selected_rows, current_row - 1, Len(url_table))
       ELSE TableUnchanged
    /\ last_op' = "move_up"
    /\ pre' = Snap(NoArg)
    /\ scenario' = 0
    /\ UNCHANGED << root_index >>
    /\ PrefsUnchanged /\ SavedUnchanged /\ DisplayUnchanged /\ ProcessUnchanged

\* _move_down
_move_down ==
    /\ ~ crashed
    /\ root_index = 1
    /\ IF current_row = -1
       THEN TableUnchanged
       ELSE IF can_move_down(current_row, Len(url_table))
       THEN /\ url_table' = swap_rows(url_table, current_row, current_row + 1)
            /\ current_row' = selectRow(current_row, current_row + 1, Len(url_table))
            /\ selected_rows' =
                 selectRow_selection(selected_rows, current_row + 1, Len(url_table))
       ELSE TableUnchanged
    /\ last_op' = "move_down"
    /\ pre' = Snap(NoArg)
    /\ scenario' = IF scenario = 2 /\ current_row = 0 THEN 3 ELSE 0
    /\ UNCHANGED << root_index >>
    /\ PrefsUnchanged /\ SavedUnchanged /\ DisplayUnchanged /\ ProcessUnchanged

\* the user toggles the check box (or checkable group) of key k
ToggleCheck ==
    /\ ~ crashed
    /\ root_index = 1
    /\ edits < MaxEdits
    /\ \E k \in DOMAIN checkboxes :
        checkboxes' = [ checkboxes EXCEPT ![k] = ~ checkboxes[k] ]
    /\ edits' = edits + 1
    /\ last_op' = "toggle"
    /\ pre' = NoSnap
    /\ UNCHANGED << window_branding_input, topbar_update, root_index, scenario >>
    /\ TableUnchanged /\ SavedUnchanged /\ DisplayUnchanged /\ ProcessUnchanged

\* the user types a window branding
EditBranding ==
    /\ ~ crashed
    /\ root_index = 1
    /\ edits < MaxEdits
    /\ \E text \in BrandingInputs : window_branding_input' = text
    /\ edits' = edits + 1
    /\ last_op' = "edit_branding"
    /\ pre' = NoSnap
    /\ UNCHANGED << topbar_update, checkboxes, root_index, scenario >>
    /\ TableUnchanged /\ SavedUnchanged /\ DisplayUnchanged /\ ProcessUnchanged

\* the user enters an update speed in the spin box
EditSpin ==
    /\ ~ crashed
    /\ root_index = 1
    /\ edits < MaxEdits
    /\ \E v \in SpinInputs : topbar_update' = spin_setValue(v)
    /\ edits' = edits + 1
    /\ last_op' = "edit_spin"
    /\ pre' = NoSnap
    /\ UNCHANGED << window_branding_input, checkboxes, root_index, scenario >>
    /\ TableUnchanged /\ SavedUnchanged /\ DisplayUnchanged /\ ProcessUnchanged

\* SettingsPage.save: the urls list built from the table.  The 2-column table
\* has no icon cell: every record gets "@pageicon".
flat_urls(t, sch) ==
    [ i \in 1..Len(t) |->
        IF sch = "package" THEN << t[i][1], t[i][2], PageIcon >>
        ELSE << t[i][1], t[i][2], t[i][3] >> ]

\* Fault: only the keys that have a widget are written.
settings_to_save_widgets_only ==
    [ key \in {"urls", "windowBranding", "topbar_update_speed"} \cup (DOMAIN checkboxes) |->
        CASE key = "urls" -> flat_urls(url_table, schema)
          [] key = "windowBranding" -> window_branding_input
          [] key = "topbar_update_speed" -> topbar_update
          [] OTHER -> checkboxes[key] ]

\* SettingsPage.save: self.settings once every widget has been read into it.
\* A key without a widget (lockdown_windows_hide_taskbar off Windows) keeps
\* the value it was loaded with.
settings_to_save ==
    [ key \in (DOMAIN pane_settings)
              \cup {"urls", "windowBranding", "topbar_update_speed"}
              \cup (DOMAIN checkboxes) |->
        CASE key = "urls" -> flat_urls(url_table, schema)
          [] key = "windowBranding" -> window_branding_input
          [] key = "topbar_update_speed" -> topbar_update
          [] key \in DOMAIN checkboxes -> checkboxes[key]
          [] OTHER -> pane_settings[key] ]

\* KioskBrowserSettings.save_settings on the backing store as it is.  setValue
\* raises nothing and returns nothing; on a store that takes no writes the
\* values never reach it.
written_store(st, settings, writable) ==
    IF writable THEN save_settings(st, settings) ELSE st

\* What a QSettings object opened after such a save reads: the backing store,
\* or the values the failed save left in QSettings' cache of the file, which
\* the objects of one process share.
readable_stores(st, settings, writable) ==
    IF writable THEN { save_settings(st, settings) }
    ELSE { st, save_settings(st, settings) }

\* Fault: the rebuild signal goes out before the settings are written.
save_and_rebuild_emit_first ==
    /\ pane_settings' = settings_to_save
    /\ win_settings' = load_settings(store, schema)
    /\ store' = written_store(store, pane_settings', store_writable)
    /\ pages_layout' = setup_buttons(win_settings'.urls, schema)
    /\ web_stack' = setup_views(win_settings'.urls)
    /\ web_index' = setup_current_index(web_index)
    /\ fetches' = disposed_fetches(fetches) \cup started_fetches(win_settings'.urls, schema)
    /\ window_title' = setWindowTitle(dict_get(win_settings', "windowBranding", "Kiosk Browser"))
    /\ is_fullscreen' = set_fullscreen(dict_get(win_settings', "fullscreen", TRUE))

\* SettingsPage.save, with MainWindow._rebuild_pages, which the rebuild signal
\* runs before save returns: save_settings, then load_settings and
\* _setup_pages
save_and_rebuild ==
    /\ pane_settings' = settings_to_save
    /\ store' = written_store(store, pane_settings', store_writable)
    /\ \E read \in readable_stores(store, pane_settings', store_writable) :
          win_settings' = load_settings(read, schema)
    /\ pages_layout' = setup_buttons(win_settings'.urls, schema)
    /\ web_stack' = setup_views(win_settings'.urls)
    /\ web_index' = setup_current_index(web_index)
    /\ fetches' = disposed_fetches(fetches) \cup started_fetches(win_settings'.urls, schema)
    /\ window_title' = setWindowTitle(dict_get(win_settings', "windowBranding", "Kiosk Browser"))
    /\ is_fullscreen' = set_fullscreen(dict_get(win_settings', "fullscreen", TRUE))

\* the Save button
save ==
    /\ ~ crashed
    /\ root_index = 1
    /\ save_and_rebuild
    /\ last_op' = "save"
    /\ pre' = Snap(<< web_index >>)
    /\ UNCHANGED << root_index, scenario >>
    /\ TableUnchanged /\ PrefsUnchanged /\ ProcessUnchanged

----------------------------------------------------------------------------
(* MainWindow *)

\* _show_settings (the keyboard shortcut)
_show_settings ==
    /\ ~ crashed
    /\ root_index' = 1
    /\ last_op' = "show_settings"
    /\ pre' = NoSnap
    /\ UNCHANGED << scenario >>
    /\ TableUnchanged /\ PrefsUnchanged /\ SavedUnchanged /\ DisplayUnchanged /\ ProcessUnchanged

\* Fault: Back shows the main view and saves nothing.
exit_settings_discard ==
    /\ ~ crashed
    /\ root_index = 1
    /\ root_index' = 0
    /\ last_op' = "exit_settings"
    /\ pre' = Snap(<< web_index >>)
    /\ UNCHANGED << scenario >>
    /\ TableUnchanged /\ PrefsUnchanged /\ SavedUnchanged /\ DisplayUnchanged /\ ProcessUnchanged

\* exit_settings (the Back button of the settings page)
exit_settings ==
    /\ ~ crashed
    /\ root_index = 1
    /\ root_index' = 0
    /\ save_and_rebuild
    /\ last_op' = "exit_settings"
    /\ pre' = Snap(<< web_index >>)
    /\ UNCHANGED << scenario >>
    /\ TableUnchanged /\ PrefsUnchanged /\ ProcessUnchanged

\* Fault: the tabs of before a rebuild are still there to be clicked.
clickable_tabs_with_stale(layout) == 0..MaxRows

\* the indices the tabs hold: _setup_pages gives the button of entry `index`
\* the slot _switch_page(index), the placeholder the slot _switch_page(0);
\* the buttons it found in pages_layout are gone
clickable_tabs(layout) == 0..(Len(layout) - 1)

\* _switch_page: the user clicks the tab at `index`
_switch_page ==
    /\ ~ crashed
    /\ root_index = 0
    /\ \E index \in clickable_tabs(pages_layout) :
        /\ web_index' = index
        /\ pre' = [ NoSnap EXCEPT !.arg = << index >> ]
    /\ last_op' = "switch_page"
    /\ UNCHANGED << root_index, pages_layout, web_stack, fetches, scenario >>
    /\ WindowUnchanged
    /\ TableUnchanged /\ PrefsUnchanged /\ SavedUnchanged /\ ProcessUnchanged

\* changeEvent: the window system changed the window; the event finds it
\* fullscreen or not
changeEvent ==
    /\ ~ crashed
    /\ \E found \in BOOLEAN :
        /\ is_fullscreen' = changeEvent_result(win_settings, schema, found)
        /\ pre' = [ NoSnap EXCEPT !.arg = << found >> ]
    /\ last_op' = "change_event"
    /\ UNCHANGED << root_index, pages_layout, web_stack, web_index, fetches,
                    window_title, scenario >>
    /\ TableUnchanged /\ PrefsUnchanged /\ SavedUnchanged /\ ProcessUnchanged

----------------------------------------------------------------------------
(* IconFetchWorker, on a thread of the pool *)

FetchedIcon == "favicon"
NoFetchedIcon == "None"
FetchResults == {FetchedIcon, NoFetchedIcon}

\* how run() ends its fetch: the icon came with status 200; favicon.get found
\* no icon; the response had another status; favicon.get or requests.get
\* raised
FetchOutcomes == {"fetched", "no_icons", "not_200", "raised"}

fetched_icon(outcome) == IF outcome = "fetched" THEN FetchedIcon ELSE NoFetchedIcon

\* what the callback finds behind the `button` it holds:
\*   "live"      the button is a tab of pages_layout;
\*   "disposed"  _setup_pages took the button out of the layout and called
\*               deleteLater(), the event loop has not deleted it yet;
\*   "deleted"   the event loop deleted it: setIcon raises RuntimeError.
\* The worker thread runs beside the main thread, so a callback for a button
\* that was taken out can come before or after the deletion.
Targets(w) == IF w.disposed THEN {"disposed", "deleted"} ELSE {"live"}

\* Fault: the icon of a failed fetch is no icon.
update_button_icon_blank(layout, b, ico) ==
    [ layout EXCEPT ![b + 1].icon = IF ico = NoFetchedIcon THEN NoIcon ELSE ico ]

\* update_button_icon(ico), the callback of _fetch_icon_async: the icon of
\* the tab button `b` (0-based) of layout `layout`
update_button_icon(layout, b, ico) ==
    [ layout EXCEPT ![b + 1].icon = IF ico = NoFetchedIcon THEN DefaultIcon ELSE ico ]

\* Fault: the callback notes the fetched icon in the window's urls.
WorkerUnchanged_icon_into_urls ==
    /\ win_settings' =
          [ win_settings EXCEPT !.urls =
              [ i \in 1..Len(@) |-> << @[i][1], @[i][2], FetchedIcon >> ] ]
    /\ UNCHANGED << store, pane_settings, url_table, current_row, selected_rows >>

\* the state the worker and its callback leave alone
WorkerUnchanged ==
    UNCHANGED << store, pane_settings, win_settings, url_table, current_row,
                 selected_rows >>

\* the callback raises: button.setIcon on a button that was deleted
callback_raises(target) == target = "deleted"

\* IconFetchWorker.run: the arguments it calls its callback with, in order.
\* The call that hands over the fetched icon stands inside the try block: an
\* exception out of it is caught and logged like one of the fetch, and run
\* goes on to callback(None).
callback_calls(outcome, target) ==
    IF outcome = "fetched"
    THEN IF callback_raises(target) THEN << FetchedIcon, NoFetchedIcon >>
         ELSE << FetchedIcon >>
    ELSE << NoFetchedIcon >>

\* IconFetchWorker.run comes to its callback: no test of the button comes
\* before button.setIcon
IconFetchWorker_run ==
    /\ ~ crashed
    /\ has_icon_workers(schema)
    /\ \E w \in fetches : \E outcome \in FetchOutcomes : \E target \in Targets(w) :
        /\ fetches' = fetches \ {w}
        /\ pages_layout' = IF target = "live"
                           THEN update_button_icon(pages_layout, w.button,
                                                   fetched_icon(outcome))
                           ELSE pages_layout
        /\ pre' = [ NoSnap EXCEPT !.arg = << target, fetched_icon(outcome), outcome,
                                             callback_calls(outcome, target), w.button >> ]
    /\ last_op' = "fetch_done"
    /\ WorkerUnchanged
    /\ UNCHANGED << root_index, web_stack, web_index, scenario >>
    /\ WindowUnchanged
    /\ PrefsUnchanged /\ ProcessUnchanged

\* MainWindow._update_button_icon(button, icon, label) of the newest window:
\* "if not icon.isNull(): button.setIcon(icon)"
_update_button_icon(layout, b, ico) ==
    IF ico = NoFetchedIcon THEN layout ELSE [ layout EXCEPT ![b + 1].icon = ico ]

\* iconChanged of a page of the newest window: the page has its favicon, or
\* has none (a null icon).  The icon of a page is taken to change once.
page_iconChanged ==
    /\ ~ crashed
    /\ ~ has_icon_workers(schema)
    /\ \E w \in fetches : \E ico \in FetchResults : \E target \in Targets(w) :
        /\ fetches' = fetches \ {w}
        /\ pages_layout' = IF target = "live"
                           THEN _update_button_icon(pages_layout, w.button, ico)
                           ELSE pages_layout
        /\ pre' = [ NoSnap EXCEPT !.arg = << target, ico, w.button >> ]
    /\ last_op' = "icon_changed"
    /\ WorkerUnchanged
    /\ UNCHANGED << root_index, web_stack, web_index, scenario >>
    /\ WindowUnchanged
    /\ PrefsUnchanged /\ ProcessUnchanged

----------------------------------------------------------------------------
(* Specifications *)

TableNext ==
    \/ ClickCell
    \/ Deselect
    \/ _add_url
    \/ _remove_selected_urls
    \/ _move_up
    \/ _move_down

PrefsNext ==
    \/ ToggleCheck
    \/ EditBranding
    \/ EditSpin

WindowNext ==
    \/ save
    \/ _show_settings
    \/ exit_settings

DisplayNext ==
    \/ _switch_page
    \/ IconFetchWorker_run
    \/ page_iconChanged

Next == TableNext \/ PrefsNext \/ WindowNext \/ DisplayNext \/ changeEvent

Spec == Init /\ [][Next]_vars

\* The whole program is too large to enumerate at once; the page list and the
\* preferences do not read each other, and each is explored with the window's
\* own actions (show, save, back).
InitPages == Init /\ platform = "Linux" /\ store \in PageStores /\ store_writable

\* the page list edited from nothing: every table of the dialog's entries
InitNoPages == InitPages /\ store = EmptyStore

SpecPages == InitNoPages /\ [][TableNext \/ WindowNext]_vars

SpecPrefs == Init /\ [][PrefsNext \/ WindowNext]_vars

\* pages loaded, added and saved, with the tabs, the page views and the
\* favicon workers
SpecDisplay == InitPages /\ [][_add_url \/ WindowNext \/ DisplayNext]_vars

\* the newest revision: every handler of its panel and its window that the
\* preferences do not enter
InitShell == InitNoPages /\ schema = "package"

SpecShell == InitShell /\ [][TableNext \/ WindowNext \/ _switch_page]_vars

\* the preferences edited and saved while the window system changes the
\* window's state
InitWindow == Init /\ platform = "Linux" /\ store_writable

SpecWindow == InitWindow /\ [][PrefsNext \/ WindowNext \/ changeEvent]_vars

----------------------------------------------------------------------------
(* Properties *)

\* a save ran last, on a store that took it
Saved == last_op \in {"save", "exit_settings"} /\ store_writable

\* spec.md, section 3: the documented keys and their defaults
DocumentedDefaults ==
    [ urls |-> << >>, windowBranding |-> "Kiosk Browser", fullscreen |-> TRUE,
      topbar |-> TRUE, topbar_12hr |-> TRUE, topbar_battery |-> FALSE,
      topbar_cpu |-> FALSE, topbar_mem |-> FALSE, topbar_update_speed |-> 1000,
      lockdown |-> FALSE, lockdown_always_on_top |-> FALSE,
      lockdown_windows_hide_taskbar |-> FALSE ]

StartedOnEmptyStore == last_op = "init" /\ store = EmptyStore

\* C1, as stated: in every revision, the settings loaded from an empty store
\* are exactly the documented defaults.
C1_LoadEmptyIsDocumented ==
    StartedOnEmptyStore =>
        /\ DOMAIN pane_settings = DOMAIN DocumentedDefaults
        /\ \A key \in DOMAIN DocumentedDefaults :
              pane_settings[key] = DocumentedDefaults[key]

\* C1, amended: in every revision, the settings loaded from an empty store are
\* that revision's DEFAULT_SETTINGS; every documented key the revision knows
\* has its documented default; the "package" revision returns all documented
\* keys and linux_wayland_experimental = False besides, the two older
\* revisions return only their own 6 and 8 keys.
C1_LoadEmptyIsSchemaDefaults ==
    StartedOnEmptyStore =>
        /\ pane_settings = DEFAULT_SETTINGS(schema)
        /\ win_settings = DEFAULT_SETTINGS(schema)
        /\ \A key \in (DOMAIN pane_settings) \cap (DOMAIN DocumentedDefaults) :
              pane_settings[key] = DocumentedDefaults[key]
        /\ schema = "package" =>
              /\ DOMAIN pane_settings =
                    (DOMAIN DocumentedDefaults) \cup {"linux_wayland_experimental"}
              /\ pane_settings["linux_wayland_experimental"] = FALSE
        /\ schema = "split" =>
              DOMAIN pane_settings =
                 (DOMAIN DocumentedDefaults)
                   \ {"topbar_mem", "lockdown", "lockdown_always_on_top",
                      "lockdown_windows_hide_taskbar"}
        /\ schema = "monolith" =>
              DOMAIN pane_settings =
                 {"urls", "windowBranding", "fullscreen", "topbar", "topbar_12hr",
                  "topbar_update_speed"}

C1_Witness ==
    /\ StartedOnEmptyStore
    /\ schema = "package"
    /\ "linux_wayland_experimental" \in DOMAIN pane_settings

PartsOf(st) ==
    { DOMAIN st \ {key} : key \in DOMAIN st }
      \cup { {key} : key \in DOMAIN st } \cup { {}, DOMAIN st }

Restrict(st, keys) == [ key \in keys |-> st[key] ]

\* C4: whatever keys the store holds, the loaded settings have every key of
\* the revision's schema: the panel's and the main window's settings always
\* do, and so does a load of any part of the current store; a key the store
\* holds is loaded with the stored value, any other with its default.
C4_LoadPopulatesEveryKey ==
    /\ DOMAIN pane_settings = DOMAIN DEFAULT_SETTINGS(schema)
    /\ DOMAIN win_settings = DOMAIN DEFAULT_SETTINGS(schema)
    /\ \A keys \in PartsOf(store) :
          LET loaded == load_settings(Restrict(store, keys), schema)
          IN  /\ DOMAIN loaded = DOMAIN DEFAULT_SETTINGS(schema)
              /\ \A key \in DOMAIN loaded :
                    loaded[key] = IF key \in keys THEN store[key]
                                  ELSE DEFAULT_SETTINGS(schema)[key]

\* a store written by the oldest revision, loaded by the newest
C4_Witness ==
    /\ last_op = "init"
    /\ schema = "package"
    /\ store = StoreMonolith
    /\ DOMAIN store # DOMAIN pane_settings
    /\ pane_settings.urls = StoreMonolith.urls
    /\ pane_settings.lockdown = FALSE

\* C10: the update speed is clamped when edited, not when loaded: a load
\* returns the stored speed as it is (250 from a store holding 250), the spin
\* box always holds a value in [500, 10000], and after any save the stored
\* speed is in [500, 10000].
C10_ClampAtEditNotLoad ==
    /\ "topbar_update_speed" \in DOMAIN store =>
          load_settings(store, schema).topbar_update_speed = store.topbar_update_speed
    /\ (last_op = "init" /\ store = StoreSlow) =>
          /\ pane_settings.topbar_update_speed = 250
          /\ win_settings.topbar_update_speed = 250
    /\ topbar_update >= SpinMin /\ topbar_update <= SpinMax
    /\ Saved =>
          /\ store.topbar_update_speed = topbar_update
          /\ store.topbar_update_speed >= SpinMin
          /\ store.topbar_update_speed <= SpinMax

\* the process started on the store holding 250 and saved without an edit
C10_Witness ==
    /\ last_op = "save"
    /\ store_writable
    /\ edits = 0
    /\ store.urls = << >>
    /\ store.windowBranding = "Kiosk Browser"
    /\ store.topbar_update_speed = SpinMin

\* what the settings panel holds for `key`: the state of the key's widget, and
\* for a key without a widget the value in SettingsPage.settings
UIValue(key) ==
    CASE key = "urls" -> flat_urls(url_table, schema)
      [] key = "windowBranding" -> window_branding_input
      [] key = "topbar_update_speed" -> topbar_update
      [] key \in DOMAIN checkboxes -> checkboxes[key]
      [] OTHER -> pane_settings[key]

\* C11: after a save on a store that takes writes, every key of the
\* revision's schema is in the store, with the value the settings panel holds
\* for it: none is left out, none keeps an older value.
C11_SaveWritesEveryKey ==
    Saved =>
        \A key \in DOMAIN DEFAULT_SETTINGS(schema) :
            /\ key \in DOMAIN store
            /\ key \in DOMAIN pane_settings
            /\ store[key] = UIValue(key)

\* a save that put all thirteen keys into a store that held none or one of
\* them, two edits among them
C11_Witness ==
    /\ last_op = "save"
    /\ store_writable
    /\ schema = "package"
    /\ platform = "Linux"
    /\ edits = 2
    /\ DOMAIN store = DOMAIN DefaultsPackage
    /\ store.windowBranding = "@pagetitle"
    /\ store.topbar_update_speed = SpinMax
    /\ store.lockdown_windows_hide_taskbar = FALSE

----------------------------------------------------------------------------
(* Properties of the page list *)

\* the rows of t whose index is not in rows, in their order
RECURSIVE KeepRowsFrom(_, _, _)
KeepRowsFrom(t, rows, i) ==
    IF i >= Len(t) THEN << >>
    ELSE (IF i \in rows THEN << >> ELSE << t[i + 1] >>) \o KeepRowsFrom(t, rows, i + 1)

KeepRows(t, rows) == KeepRowsFrom(t, rows, 0)

\* t with rows i and j exchanged
Exchanged(t, i, j) ==
    [ k \in 1..Len(t) |-> IF k = i + 1 THEN t[j + 1] ELSE IF k = j + 1 THEN t[i + 1] ELSE t[k] ]

RebuiltThenFlattened(urls) == flat_urls(populate_url_table(urls, schema), schema)

\* the table the save found is the table as populated from the loaded urls
SavedUntouched == Saved /\ pre.table = populate_url_table(loaded_urls, schema)

\* C3, as stated: populating the table from settings.urls and flattening it
\* again gives settings.urls back exactly, icon included.
C3_RebuildFlattenExact ==
    /\ RebuiltThenFlattened(pane_settings.urls) = pane_settings.urls
    /\ SavedUntouched => store.urls = loaded_urls

\* urls `got` against urls `given`: same length, same url and label at every
\* index; the icon kept by the 3-column revisions, "@pageicon" in "package"
SameButIcon(got, given) ==
    /\ Len(got) = Len(given)
    /\ \A i \in 1..Len(given) :
          /\ Len(got[i]) = 3
          /\ got[i][1] = given[i][1]
          /\ got[i][2] = given[i][2]
          /\ got[i][3] = IF schema = "package" THEN PageIcon ELSE given[i][3]

\* C3, amended: populating the table from settings.urls (3-element records)
\* and flattening it again keeps the order, the url and the label of every
\* entry; the "monolith" and "split" revisions keep the icon too, the
\* "package" revision gives every entry the icon "@pageicon" whatever icon
\* it had.
C3_RebuildFlattenKeepsUrlLabel ==
    /\ SameButIcon(RebuiltThenFlattened(pane_settings.urls), pane_settings.urls)
    /\ SavedUntouched => SameButIcon(store.urls, loaded_urls)

\* an entry with a local icon, saved untouched by the "package" revision
C3_Witness ==
    /\ SavedUntouched
    /\ schema = "package"
    /\ loaded_urls = << EntryL, EntryB >>
    /\ store.urls = << << EntryL[1], EntryL[2], PageIcon >>, EntryB >>

MovedUpAtTop == last_op = "move_up" /\ pre.row = 0
MovedDownAtBottom == last_op = "move_down" /\ pre.row = Len(pre.table) - 1 /\ pre.row >= 0

\* C5: move-up with the current row at index 0 and move-down with the current
\* row at the last index change neither the table nor the current row nor
\* the selection.
C5_MoveAtBoundaryIsNoOp ==
    (MovedUpAtTop \/ MovedDownAtBottom) =>
        /\ url_table = pre.table
        /\ current_row = pre.row
        /\ selected_rows = pre.sel

C5_Witness ==
    /\ MovedUpAtTop
    /\ Len(pre.table) = 2
    /\ url_table = pre.table

MovedUp == last_op = "move_up" /\ pre.row > 0
MovedDown == last_op = "move_down" /\ pre.row >= 0 /\ pre.row < Len(pre.table) - 1

\* C6: a move of a non-boundary current row i exchanges rows i and i-1 (i+1),
\* keeps every other row and the length, and leaves the current row on the
\* moved entry's new index.
C6_MoveSwapsAndFollows ==
    /\ MovedUp =>
          /\ url_table = Exchanged(pre.table, pre.row, pre.row - 1)
          /\ current_row = pre.row - 1
    /\ MovedDown =>
          /\ url_table = Exchanged(pre.table, pre.row, pre.row + 1)
          /\ current_row = pre.row + 1

\* C7: from an empty table, add A, add B, move row 0 down: the flattened list
\* is [B, A], and it is what a save then stores.
C7_AddAddMoveDown ==
    scenario = 3 =>
        /\ flat_urls(url_table, schema) = << EntryB, EntryA >>
        /\ Saved => store.urls = << EntryB, EntryA >>

C7_Witness ==
    /\ scenario = 3
    /\ last_op = "save"
    /\ store.urls = << EntryB, EntryA >>

\* indices to remove, present or not: at most two of 0 .. Len(t) + 2
IndexSets(t) ==
    { rows \in SUBSET (0..(Len(t) + 2)) : Cardinality(rows) <= 2 }

Removed == last_op = "remove"

Added == last_op = "add_url" /\ pre.arg # NoArg

\* C9: an accepted add puts the new row at the end and leaves every row where
\* it was, also when the table already holds a row with the same url; a
\* cancelled add changes nothing.
C9_AddAppends ==
    /\ Added =>
          /\ Len(url_table) = Len(pre.table) + 1
          /\ url_table[Len(url_table)] = pre.arg
          /\ \A i \in 1..Len(pre.table) : url_table[i] = pre.table[i]
    /\ (last_op = "add_url" /\ pre.arg = NoArg) => url_table = pre.table

\* a url added a second time
C9_Witness ==
    /\ Added
    /\ \E i \in 1..Len(pre.table) : pre.table[i][1] = pre.arg[1]
    /\ Len(url_table) = Len(pre.table) + 1

StoreWritten == store' # store

\* C12: only a save writes the backing store: a step that changes the store
\* is a step of save (the Save button or the Back button), and the store it
\* leaves is the store as save_settings wrote it, which the reload and the
\* page rebuild that follow leave alone; add, remove, move up, move down, a
\* click in the table, a tab switch and opening the settings change no key.
C12_OnlySaveWritesStore ==
    [][ /\ StoreWritten => last_op' \in {"save", "exit_settings"}
        /\ last_op' \in {"save", "exit_settings"} =>
              store' = save_settings(store, pane_settings') ]_vars

\* two pages added to the table, the store still without a key
C12_Witness ==
    /\ Added
    /\ Len(url_table) = 2
    /\ store = EmptyStore

\* C13: no entry with an empty url or an empty label enters the page list,
\* and after a save every stored entry has a non-empty url and a non-empty
\* label.
C13_SavedEntriesNonEmpty ==
    /\ \A i \in 1..Len(url_table) : url_table[i][1] # "" /\ url_table[i][2] # ""
    /\ Saved =>
          \A i \in 1..Len(store.urls) : store.urls[i][1] # "" /\ store.urls[i][2] # ""

\* a save ran last, on a store that takes no writes
SaveRefused == last_op \in {"save", "exit_settings"} /\ ~ store_writable

\* C14: a save on a store that takes no writes shows the user a warning,
\* ends no process, and leaves the panel's settings and table as the user
\* edited them, for another try.
C14_UnwritableSaveWarns ==
    SaveRefused =>
        /\ warnings # << >>
        /\ ~ crashed
        /\ url_table = pre.table
        /\ \A key \in DOMAIN DEFAULT_SETTINGS(schema) :
              key \in DOMAIN pane_settings /\ pane_settings[key] = UIValue(key)

----------------------------------------------------------------------------
(* Properties of the tabs and the page views *)

WelcomeViews == { i \in 1..Len(web_stack) : web_stack[i].kind = "welcome" }
PlaceholderTabs == { i \in 1..Len(pages_layout) : pages_layout[i] = WelcomeButton }

\* C15: while the window's loaded urls are empty it shows exactly one tab,
\* the placeholder, and exactly one view, the welcome view; while they are
\* not, it shows no welcome view and no placeholder, and one tab and one view
\* for every entry, in the order of the entries.
C15_EmptyListIsWelcome ==
    ~ crashed =>
        IF Len(win_settings.urls) = 0
        THEN /\ Len(pages_layout) = 1 /\ Cardinality(PlaceholderTabs) = 1
             /\ Len(web_stack) = 1 /\ Cardinality(WelcomeViews) = 1
        ELSE /\ WelcomeViews = {}
             /\ PlaceholderTabs = {}
             /\ Len(pages_layout) = Len(win_settings.urls)
             /\ Len(web_stack) = Len(win_settings.urls)
             /\ \A i \in 1..Len(win_settings.urls) :
                   /\ pages_layout[i].text = win_settings.urls[i][2]
                   /\ web_stack[i].kind = "web"
                   /\ web_stack[i].url = win_settings.urls[i][1]

\* a window that started on the welcome view, after two pages were added and
\* saved
C15_Witness ==
    /\ Saved
    /\ loaded_urls = << >>
    /\ Len(win_settings.urls) = 2
    /\ Len(web_stack) = 2
    /\ WelcomeViews = {}

\* the process has just started on a store whose urls records have two or
\* three elements each
StartedOnTwoOrThree ==
    /\ last_op = "init"
    /\ "urls" \in DOMAIN store
    /\ \A i \in 1..Len(store.urls) : Len(store.urls[i]) \in {2, 3}

\* C16: urls records of two elements and of three are both taken: the process
\* starts, and the settings table and the window build, from every record,
\* the entry of its url and its label: one row, one tab, one view.
C16_TwoOrThreeElementRecords ==
    StartedOnTwoOrThree =>
        /\ ~ crashed
        /\ Len(url_table) = Len(store.urls)
        /\ Len(pages_layout) = IF Len(store.urls) = 0 THEN 1 ELSE Len(store.urls)
        /\ \A i \in 1..Len(store.urls) :
              /\ url_table[i][1] = store.urls[i][1]
              /\ url_table[i][2] = store.urls[i][2]
              /\ pages_layout[i].text = store.urls[i][2]
              /\ web_stack[i].url = store.urls[i][1]

----------------------------------------------------------------------------
(* Properties of a store from another revision *)

SchemaKeys == DOMAIN DEFAULT_SETTINGS(schema)

\* the store without the keys the running revision does not know
KnownPart(st) == Restrict(st, (DOMAIN st) \cap SchemaKeys)

\* a key outside the schema is neither loaded nor does it change what is
\* loaded for a key of the schema
UnknownKeysIgnored ==
    /\ DOMAIN pane_settings = SchemaKeys
    /\ DOMAIN win_settings = SchemaKeys
    /\ load_settings(store, schema) = load_settings(KnownPart(store), schema)

\* the newest revision has no icon column: in a record it loads, an icon
\* other than "@pageicon" is a legacy field
LegacyFields(urls) ==
    IF schema = "package"
    THEN { i \in 1..Len(urls) : Len(urls[i]) >= 3 /\ urls[i][3] # PageIcon }
    ELSE {}

\* C17, as stated: unknown keys are ignored, and no legacy field of a urls
\* record appears in the loaded settings.
C17_LegacyNeverLoaded ==
    /\ UnknownKeysIgnored
    /\ LegacyFields(pane_settings.urls) = {}
    /\ LegacyFields(win_settings.urls) = {}

\* C17, amended: a key outside the schema is tolerated and ignored (the load
\* does not fail, the key is not in the loaded settings and changes no loaded
\* value).  A legacy icon path in a 3-element urls record is tolerated too, but
\* the load returns the record as it is stored, icon path included; it is the
\* table and the tabs of the newest revision that ignore it (rows of url and
\* label, default icon on every tab), and the next save that replaces it by
\* "@pageicon".
C17_UnknownIgnoredLegacyKept ==
    /\ UnknownKeysIgnored
    /\ (last_op = "init" /\ ~ StartedOnTwoOrThree) => ~ crashed
    /\ (last_op = "init" /\ "urls" \in DOMAIN store) =>
          /\ pane_settings.urls = store.urls
          /\ win_settings.urls = store.urls
          /\ (\A i \in 1..Len(store.urls) : Len(store.urls[i]) = 3) => ~ crashed
    /\ schema = "package" =>
          /\ \A i \in 1..Len(url_table) : Len(url_table[i]) = 2
          /\ ~ crashed =>
                \A i \in 1..Len(win_settings.urls) : pages_layout[i].icon = DefaultIcon
          /\ Saved => LegacyFields(store.urls) = {}

\* the newest revision started on a store holding an unknown key and a
\* record with an icon path
C17_Witness ==
    /\ last_op = "init"
    /\ schema = "package"
    /\ store = StoreLegacy
    /\ ~ crashed
    /\ "homepage" \notin DOMAIN pane_settings
    /\ pane_settings.urls = << EntryL >>
    /\ url_table = << << EntryL[1], EntryL[2] >> >>

----------------------------------------------------------------------------
(* Properties of the favicon workers *)

FetchDone == last_op = "fetch_done"

\* C18: a step of a favicon worker and its callback changes the icon of one
\* tab button at most: the backing store, the panel's and the window's
\* settings, the URL table with its selection, the preference widgets, the
\* views and the texts and number of the tabs are as they were.
C18_WorkerChangesIconOnly ==
    [][ FetchDone' =>
          /\ UNCHANGED << store, pane_settings, win_settings, url_table, current_row,
                          selected_rows, window_branding_input, topbar_update,
                          checkboxes, web_stack, web_index, root_index >>
          /\ Len(pages_layout') = Len(pages_layout)
          /\ \A i \in 1..Len(pages_layout) :
                pages_layout'[i].text = pages_layout[i].text
          /\ Cardinality({ i \in 1..Len(pages_layout) :
                             pages_layout'[i].icon # pages_layout[i].icon }) <= 1 ]_vars

\* a worker brought the favicon of a tab that is shown
C18_Witness ==
    /\ FetchDone
    /\ pre.arg[1] = "live"
    /\ pre.arg[2] = FetchedIcon
    /\ \E i \in 1..Len(pages_layout) : pages_layout[i].icon = FetchedIcon
    /\ win_settings.urls # << >>

\* C19: a worker that finishes after a rebuild took its button out of the
\* layout is ignored: its callback neither sets the icon of that button nor
\* raises on it; every callback that acts finds its button among the tabs.
C19_StaleFetchIgnored ==
    FetchDone => pre.arg[1] \notin {"disposed", "deleted"}

\* C20: after every save the store holds the page list of the table, the
\* window's settings are the settings read back from that store, and the tabs
\* and views are those of the saved list: one per entry, in its order, with
\* the entry's label and url (the placeholder and the welcome view for an
\* empty list), the first one shown.
C20_RebuildFromSavedList ==
    Saved =>
        /\ store.urls = flat_urls(url_table, schema)
        /\ win_settings = load_settings(store, schema)
        /\ web_index = 0
        /\ IF Len(store.urls) = 0
           THEN pages_layout = << WelcomeButton >> /\ web_stack = << WelcomeView >>
           ELSE /\ Len(pages_layout) = Len(store.urls)
                /\ Len(web_stack) = Len(store.urls)
                /\ \A i \in 1..Len(store.urls) :
                      /\ pages_layout[i].text = store.urls[i][2]
                      /\ web_stack[i] = [ kind |-> "web", url |-> store.urls[i][1] ]

\* the Back button saved a list of one page that the store did not hold
C20_Witness ==
    /\ last_op = "exit_settings"
    /\ store_writable
    /\ loaded_urls = << >>
    /\ store.urls = << EntryB >>
    /\ web_stack = << [ kind |-> "web", url |-> EntryB[1] ] >>
    /\ root_index = 0

----------------------------------------------------------------------------
(* Properties of the window *)

\* _setup_pages ran last: at the start of the process or in a rebuild
Rebuilt == last_op \in {"init", "save", "exit_settings"} /\ ~ crashed

\* C21: after the start and after every rebuild, tab i and view i are those of
\* urls[i], for every i, and the current page is index 0, whatever page was
\* current before the rebuild.
C21_TabOrderAndFirstPage ==
    Rebuilt =>
        /\ web_index = 0
        /\ Len(pages_layout) = Len(web_stack)
        /\ \A i \in 1..Len(win_settings.urls) :
              /\ pages_layout[i].text = win_settings.urls[i][2]
              /\ web_stack[i].url = win_settings.urls[i][1]

\* a save made while the second of two different pages was the current page
C21_Witness ==
    /\ last_op = "save"
    /\ pre.arg = << 1 >>
    /\ web_index = 0
    /\ Len(win_settings.urls) = 2
    /\ win_settings.urls[1][1] # win_settings.urls[2][1]
    /\ web_stack[2].url = win_settings.urls[2][1]

\* the entries (1-based) whose tab a favicon fetch under way will set
FetchEntries == { w.button + 1 : w \in { x \in fetches : ~ x.disposed } }

PageIconEntries(urls) == { i \in 1..Len(urls) : urls[i][3] = PageIcon }

\* C22, as stated: in every revision, the fetches _setup_pages has started
\* are those of the entries whose icon is "@pageicon", and of no other.
C22_FetchIffPageIcon ==
    Rebuilt => FetchEntries = PageIconEntries(win_settings.urls)

\* C22, amended: the window of src/main.py starts a favicon fetch for an entry
\* if and only if the entry's icon is "@pageicon", and the tab of an entry
\* with any other icon shows the local file if there is one and the default
\* icon if not, never a fetched icon.  The window of src/src/kioskbrowser
\* reads no entry's icon: the favicon of every entry's page is on its way to
\* the entry's tab, "@pageicon" or local path alike.
C22_FetchIffPageIconInWorkers ==
    ~ crashed =>
        /\ (Rebuilt /\ has_icon_workers(schema)) =>
              FetchEntries = PageIconEntries(win_settings.urls)
        /\ (Rebuilt /\ ~ has_icon_workers(schema)) =>
              FetchEntries = 1..Len(win_settings.urls)
        /\ has_icon_workers(schema) =>
              \A i \in 1..Len(win_settings.urls) :
                  win_settings.urls[i][3] # PageIcon =>
                      /\ i \notin FetchEntries
                      /\ pages_layout[i].icon =
                            IF os_path_exists(win_settings.urls[i][3])
                            THEN win_settings.urls[i][3] ELSE DefaultIcon

\* src/main.py started on a local icon and a "@pageicon": one fetch, for the
\* second entry
C22_Witness ==
    /\ last_op = "init"
    /\ schema = "monolith"
    /\ win_settings.urls = << EntryL, EntryB >>
    /\ FetchEntries = {2}
    /\ pages_layout[1].icon = "/icon.png"

\* a fetch for a tab that is shown came back without an icon
FetchFailed ==
    \/ FetchDone /\ pre.arg[1] = "live" /\ pre.arg[2] = NoFetchedIcon
    \/ last_op = "icon_changed" /\ pre.arg[1] = "live" /\ pre.arg[2] = NoFetchedIcon

\* the tab (1-based) the fetch that just ended was for
FetchedTab == IF FetchDone THEN pre.arg[5] + 1 ELSE pre.arg[3] + 1

\* C23: a tab whose fetch has not come back (and may never) shows the default
\* icon, a tab whose fetch failed shows the default icon, and page setup does
\* not wait for a fetch: when it has ended, every tab and every view is there
\* while the fetches it started are still under way.
C23_FailedOrHungFetchKeepsDefault ==
    ~ crashed =>
        /\ \A i \in FetchEntries : pages_layout[i].icon = DefaultIcon
        /\ FetchFailed => pages_layout[FetchedTab].icon = DefaultIcon
        /\ Rebuilt =>
              /\ FetchEntries \subseteq 1..Len(win_settings.urls)
              /\ Len(win_settings.urls) > 0 =>
                    /\ Len(pages_layout) = Len(win_settings.urls)
                    /\ Len(web_stack) = Len(win_settings.urls)

\* of two fetches of src/main.py one raised and one has not come back
C23_Witness ==
    /\ FetchDone
    /\ has_icon_workers(schema)
    /\ pre.arg[1] = "live"
    /\ pre.arg[3] = "raised"
    /\ pages_layout[FetchedTab].icon = DefaultIcon
    /\ Len(pages_layout) = 2
    /\ Cardinality(FetchEntries) = 1

\* C24: the window title is the loaded windowBranding, except that with the
\* windowBranding "@pagetitle" the title is taken from the current page and
\* is not the text "@pagetitle".
C24_TitleIsBrandingOrPageTitle ==
    ~ crashed =>
        IF win_settings.windowBranding = PageTitle
        THEN window_title # PageTitle
        ELSE window_title = win_settings.windowBranding

\* C25: every run of IconFetchWorker calls its callback exactly once, however
\* the fetch ends and whether or not the callback raises.
C25_CallbackExactlyOnce ==
    FetchDone => Len(pre.arg[4]) = 1

C27_BackAlwaysSaves ==
    [][ /\ (root_index = 1 /\ root_index' # 1) => last_op' = "exit_settings"
        /\ last_op' = "exit_settings" =>
              /\ root_index' = 0
              /\ UNCHANGED << url_table, window_branding_input, topbar_update, checkboxes >>
              /\ store_writable =>
                    /\ \A key \in SchemaKeys :
                          key \in DOMAIN store' /\ store'[key] = UIValue(key)
                    /\ win_settings' = load_settings(store', schema)
                    /\ pages_layout' = setup_buttons(store'.urls, schema)
                    /\ web_stack' = setup_views(store'.urls)
                    /\ window_title' = store'.windowBranding ]_vars

\* Back pressed after two edits that no Save had written
C27_Witness ==
    /\ last_op = "exit_settings"
    /\ store_writable
    /\ root_index = 0
    /\ edits = 2
    /\ store.windowBranding = PageTitle
    /\ store.topbar_update_speed = SpinMax
    /\ win_settings.topbar_update_speed = SpinMax
    /\ window_title = PageTitle

\* C28: there are as many tabs as views, the current page is one of the views,
\* and a click on tab i makes view i the current page: no click selects an
\* index the stack does not hold, also after a rebuild for a shorter list.
C28_CurrentPageInRange ==
    ~ crashed =>
        /\ Len(pages_layout) = Len(web_stack)
        /\ web_index >= 0
        /\ web_index <= Len(web_stack) - 1
        /\ last_op = "switch_page" =>
              /\ web_index = pre.arg[1]
              /\ pre.arg[1] \in 0..(Len(web_stack) - 1)

\* the second tab clicked after a rebuild that took the tabs before it away
C28_Witness ==
    /\ last_op = "switch_page"
    /\ pre.arg = << 1 >>
    /\ web_index = 1
    /\ Len(web_stack) = 2
    /\ DisposedWorker \in fetches

\* C29: the interval of the status-bar timer is the topbar_update_speed the
\* window loaded at its start, as loaded (250 from a store holding 250), and
\* no step changes it: not a save, not a rebuild.
C29_TimerIntervalSetOnce ==
    /\ []((last_op = "init" /\ ~ crashed) =>
             clock_interval = win_settings.topbar_update_speed)
    /\ [][clock_interval' = clock_interval]_vars

\* started on the store holding 250; 20000 entered and saved: the store and
\* the window's settings hold 10000, the timer still runs at 250
C29_Witness ==
    /\ last_op = "save"
    /\ store_writable
    /\ edits = 1
    /\ store.topbar_update_speed = SpinMax
    /\ win_settings.topbar_update_speed = SpinMax
    /\ clock_interval = 250
    /\ clock_interval < SpinMin

ChangeHandled == last_op = "change_event"

\* C30, as stated: while the loaded fullscreen setting is true the window is
\* fullscreen after every change event; while it is false a change event
\* leaves the window as it found it.
C30_ChangeEventForcesFullscreen ==
    ChangeHandled =>
        is_fullscreen = (IF win_settings.fullscreen THEN TRUE ELSE pre.arg[1])

\* C30, amended: in the newest window (src/src/kioskbrowser/main.py), while
\* the loaded fullscreen setting is true the window is fullscreen after every
\* change event, and once a save with fullscreen false has been followed by
\* its rebuild a change event leaves the window as it found it.  The window
\* of src/main.py has no changeEvent: a change event leaves it as it found
\* it, whatever the setting.  After the start and after every rebuild the
\* window is fullscreen exactly if the loaded setting is true.
C30_ChangeEventForcesFullscreenInPackage ==
    /\ ChangeHandled =>
          is_fullscreen = (IF has_changeEvent(schema) /\ win_settings.fullscreen
                           THEN TRUE ELSE pre.arg[1])
    /\ Rebuilt => is_fullscreen = win_settings.fullscreen

\* the newest window started fullscreen; fullscreen was unchecked and saved;
\* a change event then found the window not fullscreen and left it so
C30_Witness ==
    /\ ChangeHandled
    /\ schema = "package"
    /\ pre.arg = << FALSE >>
    /\ ~ is_fullscreen
    /\ edits = 1
    /\ store.fullscreen = FALSE
    /\ store.urls = << >>
    /\ ~ win_settings.fullscreen

====
